---- MODULE Spec2Model ----
(***************************************************************************)
(* Authentication core of the FlamesBlue HRIS+ERP backend (src/main.py):    *)
(* the token codec (issue_token / parse_token), the access guard            *)
(* (get_current_user), the login handler and the admin-only listing, over   *)
(* the "user" collection of the document store.                             *)
(*                                                                          *)
(* A Python str is a sequence of Unicode code points (naturals), bytes a    *)
(* sequence of naturals below 256, a stored document a record whose domain  *)
(* is the set of fields it has, and a collection a set of documents.        *)
(***************************************************************************)
EXTENDS Integers, Sequences, FiniteSets, TLC

VARIABLES db, issued, authed, prevError, last

vars == <<db, issued, authed, prevError, last>>

(***************************************************************************)
(* String literals of the source, as code points.                           *)
(***************************************************************************)
COLON == 58

S_admin == <<97, 100, 109, 105, 110>>

S_employee == <<101, 109, 112, 108, 111, 121, 101, 101>>

S_karyawan == <<107, 97, 114, 121, 97, 119, 97, 110>>

S_Administrator == <<65, 100, 109, 105, 110, 105, 115, 116, 114, 97, 116, 111, 114>>

S_Karyawan == <<75, 97, 114, 121, 97, 119, 97, 110>>

(***************************************************************************)
(* Results: a returned value, an HTTPException raised by the handler (with  *)
(* the line of main.py that raises it), or any other exception leaving the  *)
(* function (FastAPI answers a request validation error with 422 and an     *)
(* unhandled exception with 500).                                           *)
(***************************************************************************)
Return(v) == [kind |-> "return", value |-> v]

HTTPException(status_code, detail, line) ==
    [kind |-> "HTTPException", status_code |-> status_code, detail |-> detail,
     line |-> line]

Raise(exc, status_code) ==
    [kind |-> "unhandled", exc |-> exc, status_code |-> status_code]

(***************************************************************************)
(* str.encode(): UTF-8.  Code points of the surrogate range do not occur in *)
(* the inputs of this model.                                                *)
(***************************************************************************)
Utf8Char(cp) ==
    IF cp < 128 THEN <<cp>>
    ELSE IF cp < 2048 THEN <<192 + (cp \div 64), 128 + (cp % 64)>>
    ELSE IF cp < 65536
         THEN <<224 + (cp \div 4096), 128 + ((cp \div 64) % 64), 128 + (cp % 64)>>
    ELSE <<240 + (cp \div 262144), 128 + ((cp \div 4096) % 64),
           128 + ((cp \div 64) % 64), 128 + (cp % 64)>>

RECURSIVE encode(_)
encode(s) == IF s = <<>> THEN <<>> ELSE Utf8Char(Head(s)) \o encode(Tail(s))

(***************************************************************************)
(* bytes.hex(): two lower-case hexadecimal digits per byte.                 *)
(***************************************************************************)
HexDigit(n) == IF n < 10 THEN 48 + n ELSE 87 + n

RECURSIVE hex(_)
hex(b) ==
    IF b = <<>> THEN <<>>
    ELSE <<HexDigit(Head(b) \div 16), HexDigit(Head(b) % 16)>> \o hex(Tail(b))

(***************************************************************************)
(* bytes.fromhex(): two hexadecimal digits per byte, of either case; ASCII  *)
(* whitespace is skipped before each byte and at the end, never between the *)
(* two digits of a byte.  The result is a set: empty on ValueError, the     *)
(* bytes otherwise.                                                         *)
(***************************************************************************)
HexVal(c) ==
    IF c >= 48 /\ c <= 57 THEN c - 48
    ELSE IF c >= 97 /\ c <= 102 THEN c - 87
    ELSE IF c >= 65 /\ c <= 70 THEN c - 55
    ELSE 16

Py_ISSPACE(c) == c = 32 \/ (c >= 9 /\ c <= 13)

RECURSIVE fromhex(_)
fromhex(s) ==
    IF s = <<>> THEN {<<>>}
    ELSE IF Py_ISSPACE(Head(s)) THEN fromhex(Tail(s))
    ELSE IF Len(s) < 2 \/ HexVal(s[1]) >= 16 \/ HexVal(s[2]) >= 16 THEN {}
    ELSE {<<16 * HexVal(s[1]) + HexVal(s[2])>> \o r : r \in fromhex(SubSeq(s, 3, Len(s)))}

(***************************************************************************)
(* bytes.decode(): strict UTF-8.  Empty on UnicodeDecodeError.  CharLen is  *)
(* the length of the sequence the lead byte opens (0: no such sequence),    *)
(* CodePoint its value; overlong forms, surrogates and values above         *)
(* U+10FFFF are rejected.                                                   *)
(***************************************************************************)
IsCont(b, i) == i <= Len(b) /\ b[i] >= 128 /\ b[i] <= 191

CharLen(b) ==
    IF b[1] < 128 THEN 1
    ELSE IF b[1] >= 194 /\ b[1] <= 223 /\ IsCont(b, 2) THEN 2
    ELSE IF b[1] >= 224 /\ b[1] <= 239 /\ IsCont(b, 2) /\ IsCont(b, 3) THEN 3
    ELSE IF b[1] >= 240 /\ b[1] <= 244 /\ IsCont(b, 2) /\ IsCont(b, 3) /\ IsCont(b, 4) THEN 4
    ELSE 0

CodePoint(b, n) ==
    IF n = 1 THEN b[1]
    ELSE IF n = 2 THEN (b[1] - 192) * 64 + (b[2] - 128)
    ELSE IF n = 3 THEN (b[1] - 224) * 4096 + (b[2] - 128) * 64 + (b[3] - 128)
    ELSE IF n = 4 THEN (b[1] - 240) * 262144 + (b[2] - 128) * 4096
                       + (b[3] - 128) * 64 + (b[4] - 128)
    ELSE 0

WellFormed(n, cp) ==
    \/ n = 1
    \/ n = 2
    \/ n = 3 /\ cp >= 2048 /\ ~(cp >= 55296 /\ cp <= 57343)
    \/ n = 4 /\ cp >= 65536 /\ cp <= 1114111

RECURSIVE decode(_)
decode_char(b, n, cp) ==
    IF WellFormed(n, cp)
    THEN {<<cp>> \o r : r \in decode(SubSeq(b, n + 1, Len(b)))}
    ELSE {}

decode_next(b, n) == decode_char(b, n, CodePoint(b, n))

decode(b) == IF b = <<>> THEN {<<>>} ELSE decode_next(b, CharLen(b))

(***************************************************************************)
(* issue_token: hex of the UTF-8 bytes of "{role}:{email}".                 *)
(***************************************************************************)
issue_token(email, role) == hex(encode(role \o <<COLON>> \o email))

(***************************************************************************)
(* decoded.split(":", 1): the position of the first ':' (0 when none).      *)
(***************************************************************************)
FirstColon(s) ==
    IF \E i \in 1..Len(s) : s[i] = COLON
    THEN CHOOSE i \in 1..Len(s) : s[i] = COLON /\ \A j \in 1..(i - 1) : s[j] # COLON
    ELSE 0

LastColon(s) ==
    IF \E i \in 1..Len(s) : s[i] = COLON
    THEN CHOOSE i \in 1..Len(s) : s[i] = COLON /\ \A j \in (i + 1)..Len(s) : s[j] # COLON
    ELSE 0

(***************************************************************************)
(* parse_token: every exception of the try block (ValueError of fromhex,    *)
(* UnicodeDecodeError, the unpacking ValueError when split yields one part) *)
(* becomes HTTPException(401, "Invalid token").  unpack is the assignment   *)
(* role, email = decoded.split(":", 1), given where the text splits.        *)
(***************************************************************************)
unpack_any(decoded, i) ==
    Return([role |-> SubSeq(decoded, 1, i - 1),
            email |-> SubSeq(decoded, i + 1, Len(decoded))])

unpack(decoded, i) ==
    IF i = 0 THEN HTTPException(401, "Invalid token", 50)
    ELSE Return([role |-> SubSeq(decoded, 1, i - 1),
                 email |-> SubSeq(decoded, i + 1, Len(decoded))])

parse_decoded_rsplit(texts) ==
    IF texts = {} THEN HTTPException(401, "Invalid token", 50)
    ELSE CHOOSE r \in {unpack(decoded, LastColon(decoded)) : decoded \in texts} : TRUE

parse_decoded(texts) ==
    IF texts = {} THEN HTTPException(401, "Invalid token", 50)
    ELSE CHOOSE r \in {unpack(decoded, FirstColon(decoded)) : decoded \in texts} : TRUE

parse_token(token) == parse_decoded(UNION {decode(b) : b \in fromhex(token)})

(***************************************************************************)
(* Optional[str]: None is the one value that is no string.                  *)
(***************************************************************************)
None == <<-1>>

(***************************************************************************)
(* str.split() with no argument: the maximal runs of non-whitespace, where  *)
(* whitespace is what str.isspace() accepts.                                *)
(***************************************************************************)
isspace(c) ==
    \/ c >= 9 /\ c <= 13
    \/ c >= 28 /\ c <= 32
    \/ c \in {133, 160, 5760, 8232, 8233, 8239, 8287, 12288}
    \/ c >= 8192 /\ c <= 8202

\* the length of the run of non-whitespace that s starts with
RunLen(s) ==
    IF \E i \in 1..Len(s) : isspace(s[i])
    THEN (CHOOSE i \in 1..Len(s) : isspace(s[i]) /\ \A j \in 1..(i - 1) : ~isspace(s[j])) - 1
    ELSE Len(s)

RECURSIVE split(_)
split_run(s, n) == <<SubSeq(s, 1, n)>> \o split(SubSeq(s, n + 1, Len(s)))

split(s) ==
    IF s = <<>> THEN <<>>
    ELSE IF isspace(Head(s)) THEN split(Tail(s))
    ELSE split_run(s, RunLen(s))

(***************************************************************************)
(* The "user" collection: a set of documents, at most one per email (the    *)
(* unique index).  find_one yields the set of the (at most one) match;      *)
(* dict.get yields the field or the default.                                *)
(***************************************************************************)
find_one(coll, email) == {d \in coll : d.email = email}

get(d, key, default) == IF key \in DOMAIN d THEN d[key] ELSE default

(***************************************************************************)
(* get_current_user: the result and the calls made on the way to it, in     *)
(* the order of the code: the header, its last segment, the token's         *)
(* payload, the user's document.                                            *)
(***************************************************************************)
Guard(result, calls) == [result |-> result, calls |-> calls]

is_active_default_true(u) == get(u, "is_active", TRUE) = TRUE

is_active_is_True(u) == "is_active" \in DOMAIN u /\ u.is_active = TRUE

context_stored_role(payload, u) ==
    [email |-> payload.email, role |-> get(u, "role", S_employee),
     name |-> get(u, "name", payload.email)]

context(payload, u) ==
    [email |-> payload.email, role |-> payload.role,
     name |-> get(u, "name", payload.email)]

current_user(payload, user) ==
    IF user = {} \/ ~(\E u \in user : is_active_is_True(u))
    THEN Guard(HTTPException(401, "User not active or not found", 61),
               <<"parse_token", "find_one">>)
    ELSE Guard(Return(context(payload, CHOOSE u \in user : TRUE)),
               <<"parse_token", "find_one">>)

current_payload(payload, coll) ==
    IF payload.kind # "return" THEN Guard(payload, <<"parse_token">>)
    ELSE current_user(payload.value, find_one(coll, payload.value.email))

current_parts_first(parts, coll) ==
    IF parts = <<>> THEN Guard(Raise("IndexError", 500), <<>>)
    ELSE current_payload(parse_token(parts[1]), coll)

current_parts(parts, coll) ==
    IF parts = <<>> THEN Guard(Raise("IndexError", 500), <<>>)
    ELSE current_payload(parse_token(parts[Len(parts)]), coll)

get_current_user(authorization, coll) ==
    IF authorization = None \/ authorization = <<>>
    THEN Guard(HTTPException(401, "Missing Authorization header", 55), <<>>)
    ELSE current_parts(split(authorization), coll)

(***************************************************************************)
(* LoginRequest: email is an EmailStr, so the request is validated before   *)
(* the handler runs.  An address is local@domain with exactly one '@', a    *)
(* dot-atom local part and a domain of at least two labels; the validated   *)
(* value has its domain in lower case.  The set is empty when validation    *)
(* fails (FastAPI answers 422), else it holds the validated payload.        *)
(***************************************************************************)
IsAlnum(c) == (c >= 48 /\ c <= 57) \/ (c >= 65 /\ c <= 90) \/ (c >= 97 /\ c <= 122)

IsAtext(c) == IsAlnum(c) \/ c \in {33, 35, 36, 37, 38, 39, 42, 43, 45, 47, 61, 63,
                                   94, 95, 96, 123, 124, 125, 126}

DotAtom(s, ok(_)) ==
    /\ s # <<>>
    /\ \A i \in 1..Len(s) : ok(s[i]) \/ s[i] = 46
    /\ s[1] # 46 /\ s[Len(s)] # 46
    /\ \A i \in 1..(Len(s) - 1) : ~(s[i] = 46 /\ s[i + 1] = 46)

IsDomainChar(c) == IsAlnum(c) \/ c = 45

IsDomain(s) ==
    /\ DotAtom(s, IsDomainChar)
    /\ \E i \in 1..Len(s) : s[i] = 46
    /\ s[1] # 45 /\ s[Len(s)] # 45
    /\ \A i \in 1..(Len(s) - 1) : ~(s[i] = 45 /\ s[i + 1] = 46) /\ ~(s[i] = 46 /\ s[i + 1] = 45)

lower(s) == [i \in 1..Len(s) |-> IF s[i] >= 65 /\ s[i] <= 90 THEN s[i] + 32 ELSE s[i]]

email_parts(local, domain) ==
    IF DotAtom(local, IsAtext) /\ IsDomain(domain)
    THEN {local \o <<64>> \o lower(domain)}
    ELSE {}

EmailStr(s) ==
    IF Cardinality({i \in 1..Len(s) : s[i] = 64}) # 1 THEN {}
    ELSE UNION {email_parts(SubSeq(s, 1, at - 1), SubSeq(s, at + 1, Len(s))) :
                   at \in {i \in 1..Len(s) : s[i] = 64}}

LoginRequest(email, password) ==
    {[email |-> e, password |-> password] : e \in EmailStr(email)}

(***************************************************************************)
(* login: the handler body, for a database that is configured: the lookup,  *)
(* then the checks on the document found.                                   *)
(***************************************************************************)
LoginResponse(payload, u) ==
    Return([email |-> payload.email,
            name |-> get(u, "name", payload.email),
            role |-> get(u, "role", S_employee),
            token |-> issue_token(payload.email, get(u, "role", S_employee))])

login_checks_same_error(payload, u) ==
    IF get(u, "password", None) # payload.password
    THEN HTTPException(401, "Invalid credentials", 133)
    ELSE IF ~get(u, "is_active", TRUE)
    THEN HTTPException(401, "Invalid credentials", 135)
    ELSE LoginResponse(payload, u)

login_checks(payload, u) ==
    IF get(u, "password", None) # payload.password
    THEN HTTPException(401, "Invalid credentials", 133)
    ELSE IF ~get(u, "is_active", TRUE)
    THEN HTTPException(403, "User is inactive", 135)
    ELSE LoginResponse(payload, u)

login_user(payload, user) ==
    IF user = {} THEN HTTPException(401, "Invalid credentials", 131)
    ELSE CHOOSE r \in {login_checks(payload, u) : u \in user} : TRUE

login(payload, coll) == login_user(payload, find_one(coll, payload.email))

(***************************************************************************)
(* POST /auth/login as FastAPI serves it: validation, then the handler.     *)
(***************************************************************************)
post_login(email, password, coll) ==
    IF LoginRequest(email, password) = {} THEN Raise("RequestValidationError", 422)
    ELSE CHOOSE r \in {login(payload, coll) : payload \in LoginRequest(email, password)} : TRUE

(***************************************************************************)
(* list_users: the admin check on the role of the identity context, then    *)
(* the documents with their passwords removed.                              *)
(***************************************************************************)
redact(d) == [k \in (DOMAIN d) \ {"password"} |-> d[k]]

admin_only(current, coll) ==
    IF current.kind # "return" THEN current
    ELSE IF current.value.role # S_admin THEN HTTPException(403, "Admin only", 151)
    ELSE Return([count |-> Cardinality(coll), items |-> {redact(d) : d \in coll}])

list_users(authorization, coll) ==
    admin_only(get_current_user(authorization, coll).result, coll)

(***************************************************************************)
(* User (schemas.py): the document create_document stores.                  *)
(***************************************************************************)
User(email, password, name, role, is_active) ==
    [email |-> email, password |-> password, name |-> name, role |-> role,
     is_active |-> is_active]

(***************************************************************************)
(* seed_users: the two default accounts, each only when no document has its *)
(* email.                                                                   *)
(***************************************************************************)
seed(coll, user) == IF find_one(coll, user.email) = {} THEN coll \cup {user} ELSE coll

seeded(coll) ==
    seed(seed(coll, User(S_admin, S_admin, S_Administrator, S_admin, TRUE)),
         User(S_karyawan, S_karyawan, S_Karyawan, S_employee, TRUE))

(***************************************************************************)
(* Inputs of the requests.                                                  *)
(***************************************************************************)
MaxPrefix == 1

MaxTokenLen == 6

MaxTextLen == 3

Roles == {S_admin, S_employee}

E_user == <<97, 64, 98, 46, 99>>

E_upper == <<97, 64, 66, 46, 99>>

E_unknown == <<122, 64, 98, 46, 99>>

S_Bearer == <<66, 101, 97, 114, 101, 114>>

S_User == <<85, 115, 101, 114>>

Strings(alphabet, n) == UNION {[1..k -> alphabet] : k \in 0..n}

\* well-formed tokens (issued or forged), a non-hexadecimal string, and the
\* hexadecimal of a text without ':'
TokenInputs ==
    {issue_token(e, r) : e \in {S_admin, E_user}, r \in Roles}
    \cup {issue_token(E_unknown, S_admin), <<122, 122>>, hex(encode(S_admin))}

\* what may precede the token in the header: a scheme word, or another token
PrefixWords == {S_Bearer, issue_token(S_admin, S_admin)}

RECURSIVE joined(_)
joined(words) ==
    IF words = <<>> THEN <<>> ELSE Head(words) \o <<32>> \o joined(Tail(words))

HeaderInputs ==
    {None, <<>>, <<32>>, <<160>>}
    \cup {joined(p) \o t : p \in Strings(PrefixWords, MaxPrefix), t \in TokenInputs}

LoginEmails == {S_admin, E_user, E_upper, E_unknown}

Passwords == {S_admin, S_karyawan}

\* the alphabets of the codec's inputs: '3', 'a', 'c', ' ', 'g' for tokens
\* (bytes 0x33, 0x3a ':', 0xc3 a lead byte, 0xa3 a continuation byte, ...),
\* and 'a', ':', U+00E9 for texts
TokenAlphabet == {51, 97, 99, 32, 103}

TextAlphabet == {97, COLON, 233}

(***************************************************************************)
(* The state after construction: the startup event has seeded the empty     *)
(* collection; no request has been served.  The handlers keep no state of   *)
(* their own: `last' is the request being answered and its response, and    *)
(* issued (the tokens login has returned), authed (the token of the latest  *)
(* successful authentication) and prevError (the latest error response      *)
(* delivered) record what the clients have seen.                            *)
(***************************************************************************)
Idle == [op |-> "idle"]

NoError == [kind |-> "none"]

Init ==
    /\ db = seeded({})
    /\ issued = {}
    /\ authed = None
    /\ prevError = NoError
    /\ last = Idle

(***************************************************************************)
(* A restart: the startup event runs seed_users on the collection as it is. *)
(***************************************************************************)
seed_users ==
    /\ last = Idle
    /\ db' = seeded(db)
    /\ UNCHANGED <<issued, authed, prevError, last>>

(***************************************************************************)
(* POST /auth/login.                                                        *)
(***************************************************************************)
Login(email, password) ==
    /\ last = Idle
    /\ last' = [op |-> "login", email |-> email, password |-> password,
                result |-> post_login(email, password, db)]
    /\ UNCHANGED db

(***************************************************************************)
(* GET /auth/me: the identity context of get_current_user, as it is.        *)
(***************************************************************************)
me(authorization) ==
    /\ last = Idle
    /\ last' = [op |-> "me", authorization |-> authorization,
                guard |-> get_current_user(authorization, db)]
    /\ UNCHANGED db

(***************************************************************************)
(* GET /admin/users.                                                        *)
(***************************************************************************)
ListUsers(authorization) ==
    /\ last = Idle
    /\ last' = [op |-> "list_users", authorization |-> authorization,
                result |-> list_users(authorization, db)]
    /\ UNCHANGED db

(***************************************************************************)
(* The response reaches the client.                                         *)
(***************************************************************************)
Respond ==
    /\ last # Idle
    /\ last' = Idle
    /\ UNCHANGED db

Last(parts) == parts[Len(parts)]

Result(response) == IF response.op = "me" THEN response.guard.result ELSE response.result

\* what the clients keep of a response: the token a login returned, the
\* token that authenticated
Seen ==
    /\ issued' = IF last # Idle /\ last.op = "login" /\ last.result.kind = "return"
                 THEN issued \cup {last.result.value.token} ELSE issued
    /\ authed' = IF last # Idle /\ last.op = "me" /\ last.guard.result.kind = "return"
                 THEN Last(split(last.authorization)) ELSE authed
    /\ UNCHANGED prevError

\* what the clients keep of a response: the error it carried
SeenError ==
    /\ prevError' = IF last # Idle /\ Result(last).kind = "HTTPException"
                    THEN Result(last) ELSE prevError
    /\ UNCHANGED <<issued, authed>>

(***************************************************************************)
(* Changes of the collection made outside the handlers, between requests:   *)
(* an account created through the User schema, updates of its document      *)
(* (activation, role, a field removed), and the deletion of any document.   *)
(***************************************************************************)
Managed == {E_user}

StoreChange(coll) ==
    /\ last = Idle
    /\ db' = coll
    /\ db' # db
    /\ UNCHANGED <<issued, authed, prevError, last>>

InsertUser(email, role, is_active) ==
    /\ find_one(db, email) = {}
    /\ StoreChange(db \cup {User(email, S_admin, S_User, role, is_active)})

SetActive(d, is_active) ==
    StoreChange((db \ {d}) \cup
        {[k \in (DOMAIN d) \cup {"is_active"} |->
             IF k = "is_active" THEN is_active ELSE d[k]]})

SetRole(d, role) ==
    StoreChange((db \ {d}) \cup {[d EXCEPT !.role = role]})

Unset(d, field) ==
    StoreChange((db \ {d}) \cup {[k \in (DOMAIN d) \ {field} |-> d[k]]})

DeleteUser(d) ==
    StoreChange(db \ {d})

Store ==
    \/ \E email \in Managed, role \in Roles, is_active \in BOOLEAN :
          InsertUser(email, role, is_active)
    \/ \E d \in db, is_active \in BOOLEAN : d.email \in Managed /\ SetActive(d, is_active)
    \/ \E d \in db, role \in Roles : d.email \in Managed /\ SetRole(d, role)
    \/ \E d \in db, field \in {"is_active", "name"} : d.email \in Managed /\ Unset(d, field)
    \/ \E d \in db : DeleteUser(d)

Next ==
    \/ seed_users
    \/ Store
    \/ \E email \in LoginEmails, password \in Passwords : Login(email, password) /\ Seen
    \/ \E authorization \in HeaderInputs : me(authorization) /\ Seen
    \/ \E authorization \in HeaderInputs : ListUsers(authorization) /\ Seen
    \/ Respond /\ Seen

Spec == Init /\ [][Next]_vars

(***************************************************************************)
(* The same system, recording the error responses instead of the tokens.    *)
(***************************************************************************)
NextErrors ==
    \/ seed_users
    \/ Store
    \/ \E email \in LoginEmails, password \in Passwords : Login(email, password) /\ SeenError
    \/ \E authorization \in HeaderInputs : me(authorization) /\ SeenError
    \/ \E authorization \in HeaderInputs : ListUsers(authorization) /\ SeenError
    \/ Respond /\ SeenError

SpecErrors == Init /\ [][NextErrors]_vars

(***************************************************************************)
(* The codec alone: a call of parse_token on any string over the token      *)
(* alphabet, or of issue_token and then parse_token on any role and email   *)
(* over the text alphabet, is drawn at the start and then made.             *)
(***************************************************************************)
InitCodec ==
    /\ db = seeded({})
    /\ issued = {}
    /\ authed = None
    /\ prevError = NoError
    /\ \/ \E token \in Strings(TokenAlphabet, MaxTokenLen) :
             last = [op |-> "call_parse_token", token |-> token]
       \/ \E email \in Strings(TextAlphabet, MaxTextLen),
             role \in Strings(TextAlphabet, MaxTextLen) :
             last = [op |-> "call_round_trip", email |-> email, role |-> role]

ParseToken ==
    /\ last.op = "call_parse_token"
    /\ last' = [op |-> "parse_token", token |-> last.token,
                result |-> parse_token(last.token)]
    /\ UNCHANGED <<db, issued, authed, prevError>>

RoundTrip ==
    /\ last.op = "call_round_trip"
    /\ last' = [op |-> "round_trip", email |-> last.email, role |-> last.role,
                token |-> issue_token(last.email, last.role),
                result |-> parse_token(issue_token(last.email, last.role))]
    /\ UNCHANGED <<db, issued, authed, prevError>>

NextCodec == ParseToken \/ RoundTrip

SpecCodec == InitCodec /\ [][NextCodec]_vars

(***************************************************************************)
(* What the claims speak of.                                                *)
(***************************************************************************)
Range(s) == {s[i] : i \in 1..Len(s)}

\* the document the store holds for an identity is there and is_active is true
ActiveInStore(email) == \E d \in db : d.email = email /\ "is_active" \in DOMAIN d /\ d.is_active = TRUE

\* the last whitespace-separated segment of a header that has one: what lies
\* between the last whitespace before the last non-whitespace character and
\* that character
HasSegment(h) == h # None /\ \E i \in 1..Len(h) : ~isspace(h[i])

SegmentEnd(h) == CHOOSE e \in 1..Len(h) : ~isspace(h[e]) /\ \A j \in (e + 1)..Len(h) : isspace(h[j])

SegmentStart(h) ==
    CHOOSE b \in 1..SegmentEnd(h) :
        /\ b = 1 \/ isspace(h[b - 1])
        /\ \A j \in b..SegmentEnd(h) : ~isspace(h[j])

LastSegment(h) == SubSeq(h, SegmentStart(h), SegmentEnd(h))

\* what the last segment decodes to
Decoded(h) == parse_token(LastSegment(h))

SegmentCount(h) ==
    Cardinality({i \in 1..Len(h) : ~isspace(h[i]) /\ (i = 1 \/ isspace(h[i - 1]))})

IsIdentityContext(r) == r.kind = "return"

MissingCredentials == HTTPException(401, "Missing Authorization header", 55)

InvalidToken == HTTPException(401, "Invalid token", 50)

Unauthorized == HTTPException(401, "User not active or not found", 61)

Forbidden == HTTPException(403, "Admin only", 151)

(***************************************************************************)
(* C1: authenticate yields an identity context only for an identity whose   *)
(* current document exists and has is_active = true; a token that           *)
(* authenticated before and whose account is no longer active fails with    *)
(* Unauthorized (401), although parse_token still decodes it.               *)
(***************************************************************************)
C1_OnlyActiveAuthenticates ==
    /\ (last.op = "me" /\ IsIdentityContext(last.guard.result))
          => ActiveInStore(last.guard.result.value.email)
    /\ (last.op = "list_users" /\ last.result.kind = "return")
          => ActiveInStore(Decoded(last.authorization).value.email)
    /\ (last.op = "me" /\ authed # None /\ HasSegment(last.authorization)
        /\ LastSegment(last.authorization) = authed
        /\ ~ActiveInStore(parse_token(authed).value.email))
          => /\ last.guard.result = Unauthorized
             /\ parse_token(authed).kind = "return"

C1_DeactivatedTokenRejected ==
    /\ last.op = "me"
    /\ authed # None
    /\ HasSegment(last.authorization)
    /\ LastSegment(last.authorization) = authed
    /\ authed \in issued
    /\ \E d \in db : d.email = parse_token(authed).value.email
                     /\ "is_active" \in DOMAIN d /\ d.is_active = FALSE
    /\ last.guard.result = Unauthorized

(***************************************************************************)
(* C2: for every active account, a login with the correct identity and      *)
(* password returns a token with which authenticate, bare or after a scheme *)
(* word, yields the login identity and the account's stored role.           *)
(***************************************************************************)
C2_LoginTokenAuthenticates ==
    \A d \in db :
        (/\ last.op = "login"
         /\ last.email = d.email
         /\ "password" \in DOMAIN d /\ last.password = d.password
         /\ "is_active" \in DOMAIN d /\ d.is_active = TRUE)
        => /\ last.result.kind = "return"
           /\ \A h \in {last.result.value.token,
                        S_Bearer \o <<32>> \o last.result.value.token} :
                 /\ IsIdentityContext(get_current_user(h, db).result)
                 /\ get_current_user(h, db).result.value.email = last.email
                 /\ get_current_user(h, db).result.value.role = d.role

(***************************************************************************)
(* C3: login fails with InvalidCredentials exactly when no document exists  *)
(* for the identity or the stored password differs, with AccountInactive (a *)
(* different status) exactly when the document exists, the password matches *)
(* and is_active is false; a token is issued in neither case.               *)
(***************************************************************************)
C3_LoginFailures ==
    last.op = "login" =>
        LET found == \E d \in db : d.email = last.email
            matches == \E d \in db : d.email = last.email
                                     /\ get(d, "password", None) = last.password
            inactive == \E d \in db : d.email = last.email
                                      /\ get(d, "is_active", TRUE) = FALSE
        IN /\ (~found \/ ~matches)
                <=> (last.result.kind = "HTTPException"
                     /\ last.result.status_code = 401
                     /\ last.result.detail = "Invalid credentials")
           /\ (found /\ matches /\ inactive)
                <=> (last.result.kind = "HTTPException"
                     /\ last.result.status_code = 403
                     /\ last.result.detail = "User is inactive")
           /\ (~found \/ ~matches \/ inactive) => last.result.kind # "return"

(***************************************************************************)
(* C4: for every header value, authenticate ends in an identity context,    *)
(* MissingCredentials, InvalidToken or Unauthorized, and in nothing else.   *)
(***************************************************************************)
C4_TypedOutcomes ==
    last.op = "me" =>
        \/ IsIdentityContext(last.guard.result)
        \/ last.guard.result \in {MissingCredentials, InvalidToken, Unauthorized}

(***************************************************************************)
(* C5: the role of the identity context is the role decoded from the token, *)
(* whatever the stored role: for an active identity and a token that        *)
(* decodes to (r, identity), authenticate succeeds with role r, and the     *)
(* admin-only listing answers Forbidden (403) iff r is not "admin".         *)
(***************************************************************************)
RoleFromToken(op, payload) ==
    (payload.kind = "return" /\ ActiveInStore(payload.value.email))
    =>    /\ op = "me" =>
                /\ IsIdentityContext(last.guard.result)
                /\ last.guard.result.value.role = payload.value.role
                /\ last.guard.result.value.email = payload.value.email
          /\ op = "list_users" =>
                /\ (last.result = Forbidden) <=> (payload.value.role # S_admin)
                /\ (last.result.kind = "return") <=> (payload.value.role = S_admin)

C5_RoleFromToken ==
    (last.op \in {"me", "list_users"} /\ HasSegment(last.authorization))
    => RoleFromToken(last.op, Decoded(last.authorization))

C5_StaleAdminTokenPasses ==
    /\ last.op = "list_users"
    /\ last.result.kind = "return"
    /\ LastSegment(last.authorization) \in issued
    /\ Decoded(last.authorization).value.role = S_admin
    /\ \E d \in db : d.email = Decoded(last.authorization).value.email
                     /\ d.role = S_employee
    /\ last.result.kind = "return"

(***************************************************************************)
(* C8: without a header value authenticate fails with MissingCredentials    *)
(* before any decode or lookup; with a header of one or more segments only  *)
(* the last segment is decoded, and the outcome is the outcome for that     *)
(* segment alone.                                                           *)
(***************************************************************************)
C8_LastSegmentOnly ==
    last.op = "me" =>
        /\ last.authorization = None
              => last.guard = [result |-> MissingCredentials, calls |-> <<>>]
        /\ HasSegment(last.authorization)
              => last.guard = get_current_user(LastSegment(last.authorization), db)

C8_EarlierTokenIgnored ==
    /\ last.op = "me"
    /\ last.authorization # None
    /\ SegmentCount(last.authorization) = 2
    /\ parse_token(split(last.authorization)[1]).kind = "return"
    /\ parse_token(split(last.authorization)[1]).value.email = S_admin
    /\ ActiveInStore(S_admin)
    /\ IsIdentityContext(last.guard.result)
    /\ last.guard.result.value.email = E_user
    /\ last.guard.result.value.role = S_employee

(***************************************************************************)
(* C10: the same activity gate applies to login and to token validity: for  *)
(* every stored document (is_active true, false or absent) login with the   *)
(* stored password succeeds iff authenticate succeeds with a well-formed    *)
(* token naming that identity.                                              *)
(***************************************************************************)
C10_SameGate ==
    \A d \in db :
        "password" \in DOMAIN d
        => ((login([email |-> d.email, password |-> d.password], db).kind = "return")
            <=> IsIdentityContext(get_current_user(issue_token(d.email, d.role), db).result))

(***************************************************************************)
(* C6: round trip: for every role without ':' and every identity, with or   *)
(* without ':', parse_token(issue_token(identity, role)) returns exactly    *)
(* that role and that identity.                                             *)
(***************************************************************************)
C6_RoundTrip ==
    (last.op = "round_trip" /\ COLON \notin Range(last.role))
    => last.result = Return([role |-> last.role, email |-> last.email])

C6_IdentityWithColons ==
    /\ last.op = "round_trip"
    /\ COLON \notin Range(last.role)
    /\ last.role # <<>>
    /\ Cardinality({i \in 1..Len(last.email) : last.email[i] = COLON}) >= 2
    /\ last.result = Return([role |-> last.role, email |-> last.email])

(***************************************************************************)
(* What C7 calls malformed.  A string is valid hexadecimal when it is an    *)
(* even number of hexadecimal digits and nothing else; it is spaced         *)
(* hexadecimal when it is pairs of hexadecimal digits with any ASCII        *)
(* whitespace before, between and after the pairs.  HexBytes is the bytes   *)
(* the digits of a string denote, two digits a byte.                        *)
(***************************************************************************)
IsHexDigit(c) ==
    (c >= 48 /\ c <= 57) \/ (c >= 97 /\ c <= 102) \/ (c >= 65 /\ c <= 70)

IsAsciiSpace(c) == c \in {9, 10, 11, 12, 13, 32}

IsHex(s) == Len(s) % 2 = 0 /\ \A i \in 1..Len(s) : IsHexDigit(s[i])

DigitsBefore(s, i) == Cardinality({j \in 1..(i - 1) : ~IsAsciiSpace(s[j])})

IsSpacedHex(s) ==
    /\ \A i \in 1..Len(s) : IsHexDigit(s[i]) \/ IsAsciiSpace(s[i])
    /\ DigitsBefore(s, Len(s) + 1) % 2 = 0
    /\ \A i \in 1..Len(s) : IsAsciiSpace(s[i]) => DigitsBefore(s, i) % 2 = 0

Digits(s) == SelectSeq(s, LAMBDA c : ~IsAsciiSpace(c))

DigitValue(c) == IF c <= 57 THEN c - 48 ELSE IF c >= 97 THEN c - 87 ELSE c - 55

HexBytes(s) ==
    [i \in 1..(Len(Digits(s)) \div 2) |->
        16 * DigitValue(Digits(s)[2 * i - 1]) + DigitValue(Digits(s)[2 * i])]

\* the bytes are the UTF-8 encoding of some text without ':', or of no text
NoDelimitedText(bytes) ==
    \A text \in decode(bytes) : COLON \notin Range(text)

(***************************************************************************)
(* C7, as stated: parse_token fails with InvalidToken, and with nothing     *)
(* else, for every string that is not valid hexadecimal, whose bytes are    *)
(* not valid UTF-8, or whose text has no ':'.                               *)
(***************************************************************************)
C7_NotHexFails ==
    (last.op = "parse_token"
     /\ (~IsHex(last.token) \/ NoDelimitedText(HexBytes(last.token))))
    => last.result = InvalidToken

(***************************************************************************)
(* C7, amended: parse_token fails with InvalidToken, and with nothing else, *)
(* for every string that is not spaced hexadecimal (pairs of hexadecimal    *)
(* digits, ASCII whitespace allowed around the pairs), whose bytes are not  *)
(* valid UTF-8, or whose text has no ':'.                                   *)
(***************************************************************************)
C7_MalformedFails ==
    (last.op = "parse_token"
     /\ (~IsSpacedHex(last.token) \/ NoDelimitedText(HexBytes(last.token))))
    => last.result = InvalidToken

C7_UndelimitedTextFails ==
    /\ last.op = "parse_token"
    /\ IsHex(last.token)
    /\ last.token # <<>>
    /\ decode(HexBytes(last.token)) # {}
    /\ NoDelimitedText(HexBytes(last.token))
    /\ last.result = InvalidToken

(***************************************************************************)
(* The six error kinds, by the line of main.py that raises the error.       *)
(***************************************************************************)
Kind(error) ==
    CASE error.line = 50 -> "InvalidToken"
      [] error.line = 55 -> "MissingCredentials"
      [] error.line = 61 -> "Unauthorized"
      [] error.line \in {131, 133} -> "InvalidCredentials"
      [] error.line = 135 -> "AccountInactive"
      [] error.line = 151 -> "Forbidden"

\* the error delivered before and the error of the response at hand
TwoErrors ==
    /\ prevError.kind = "HTTPException"
    /\ last # Idle
    /\ Result(last).kind = "HTTPException"

(***************************************************************************)
(* C9, as stated: each of the six error kinds has its own status, different *)
(* from the status of every other kind.                                     *)
(***************************************************************************)
C9_StatusPerKind ==
    TwoErrors => ((Kind(prevError) = Kind(Result(last)))
                  <=> (prevError.status_code = Result(last).status_code))

(***************************************************************************)
(* C9, amended: each of the six error kinds has its own pair of status and  *)
(* detail, the same on every occurrence and different from the pair of      *)
(* every other kind; the status alone is 403 for AccountInactive and        *)
(* Forbidden and 401 for the other four kinds.                              *)
(***************************************************************************)
C9_StatusAndDetailPerKind ==
    TwoErrors =>
        /\ (Kind(prevError) = Kind(Result(last)))
              <=> (/\ prevError.status_code = Result(last).status_code
                   /\ prevError.detail = Result(last).detail)
        /\ Result(last).status_code =
              (IF Kind(Result(last)) \in {"AccountInactive", "Forbidden"} THEN 403 ELSE 401)

C9_TwoKindsOneStatus ==
    /\ TwoErrors
    /\ Kind(prevError) = "Forbidden"
    /\ Kind(Result(last)) = "AccountInactive"
    /\ prevError.status_code = Result(last).status_code

====
